---------------------------- MODULE Spec2Model ----------------------------
(***************************************************************************)
(* A model of safe_rsync (src/src/safe_rsync/safe_rsync.py): the rsync      *)
(* wrapper's orchestration (main, check_rsync, run_rsync, execute_rsync)    *)
(* as a state machine, and its pure helpers (parse_rsync_version,           *)
(* build_rsync_command) as operators.                                       *)
(*                                                                         *)
(* A Python str is modelled as a sequence of one-character strings, so      *)
(* that rstrip, prefix matching, substring search and the version regular   *)
(* expression are computed character by character as the code does.         *)
(***************************************************************************)
EXTENDS Integers, Sequences, FiniteSets, TLC

VARIABLES
    pc,            \* position of the control thread in main()
    dry_run,       \* args.dry_run                                  (l. 281)
    version,       \* check_rsync's local version                   (l. 90)
    spawned,       \* the child processes spawned so far, in order
    backupDir,     \* "absent" | "present": the run's backup directory
    logFile,       \* NoFile, or <<path, content>> of the log file
    cmd,           \* run_rsync's local cmd                         (l. 250)
    child,         \* the sync child process: state, returncode, termination request
    output,        \* the lines read from proc.stdout so far, as read
    stats,         \* execute_rsync's local stats                   (l. 168)
    prev_len,      \* execute_rsync's local prev_len                (l. 169)
    curLine,       \* the characters on the console's current line
    printed,       \* the texts the print of l. 182 has written, in order
    console,       \* the messages printed so far, in order (tags)
    runStats,      \* run_rsync's local stats: what execute_rsync returned
    exitStatus,    \* the wrapper's exit status once pc = "exited"
    failure,       \* how the run failed ("none" while it has not)
    steps,         \* the orchestration steps entered so far, in order
    args,          \* unit specifications: the arguments of the call
    result,        \* unit specifications: what the call returned
    calls          \* unit specifications: number of calls made

vars == <<pc, dry_run, version,
          spawned, backupDir, logFile, cmd, child, output, stats, prev_len,
          curLine, printed, console, runStats, exitStatus, failure, steps,
          args, result, calls>>

mainVars == <<pc, dry_run, version,
              spawned, backupDir, logFile, cmd, child, output, stats, prev_len,
              curLine, printed, console, runStats, exitStatus, failure, steps>>

unitVars == <<args, result, calls>>

-----------------------------------------------------------------------------
(* Bounds of the model.                                                     *)

\* Longest output stream the child writes, in lines.
MaxLines == 3

\* Longest source path given to build_rsync_command, in characters.
MaxPathLen == 3

\* Most components of a version number the tool reports.
MaxComponents == 4

\* Most statistics lines handed to save_summary on its own.
MaxStats == 2

-----------------------------------------------------------------------------
(* Strings.                                                                 *)

NoValue == "NoValue"

\* os.sep on the platforms check_platform accepts.
os_sep == "/"

\* What str.rstrip() without arguments and the regular expression \s strip
\* or match, among the characters of the model.
Whitespace == {" ", "\t", "\n", "\r"}

DigitChars == <<"0", "1", "2", "3", "4", "5", "6", "7", "8", "9">>

Digits == {DigitChars[k] : k \in 1..10}

DigitVal(c) == (CHOOSE k \in 1..10 : DigitChars[k] = c) - 1

\* str.rstrip(chars): drop every trailing character that is in chars.
RECURSIVE RStrip(_, _)
RStrip(s, chars) ==
    IF Len(s) > 0 /\ s[Len(s)] \in chars
    THEN RStrip(SubSeq(s, 1, Len(s) - 1), chars)
    ELSE s

\* lit occurs in s starting at index i.
OccursAt(s, i, lit) ==
    /\ i >= 1
    /\ i + Len(lit) - 1 <= Len(s)
    /\ \A k \in 1..Len(lit) : s[i + k - 1] = lit[k]

\* str.startswith / re.match with a literal pattern anchored at the start.
StartsWith(s, lit) == OccursAt(s, 1, lit)

\* `lit in s`.
Contains(s, lit) == \E i \in 1..Len(s) : OccursAt(s, i, lit)

\* The first index at or after i whose character is not in cls (a greedy
\* character-class repetition started at i ends just before it).
RECURSIVE SpanEnd(_, _, _)
SpanEnd(s, i, cls) ==
    IF i <= Len(s) /\ s[i] \in cls THEN SpanEnd(s, i + 1, cls) ELSE i

\* int(p) for a string of decimal digits.
RECURSIVE ParseInt(_)
ParseInt(p) ==
    IF Len(p) = 0 THEN 0
    ELSE 10 * ParseInt(SubSeq(p, 1, Len(p) - 1)) + DigitVal(p[Len(p)])

\* str.split(sep) for a one-character separator.
RECURSIVE Split(_, _)
Split(s, sep) ==
    IF \A i \in 1..Len(s) : s[i] # sep THEN <<s>>
    ELSE LET i == CHOOSE j \in 1..Len(s) :
                      s[j] = sep /\ \A k \in 1..(j - 1) : s[k] # sep
         IN  <<SubSeq(s, 1, i - 1)>> \o Split(SubSeq(s, i + 1, Len(s)), sep)

-----------------------------------------------------------------------------
(* parse_rsync_version                                                      *)

RsyncWord == <<"r", "s", "y", "n", "c">>

VersionWord == <<"v", "e", "r", "s", "i", "o", "n">>

\* (?:\.[0-9]+)+ matched greedily from index i: the index after the last
\* repetition (i itself when there is none).
RECURSIVE DotGroupsEnd(_, _)
DotGroupsEnd(s, i) ==
    IF /\ i <= Len(s)
       /\ s[i] = "."
       /\ SpanEnd(s, i + 1, Digits) > i + 1
    THEN DotGroupsEnd(s, SpanEnd(s, i + 1, Digits))
    ELSE i

\* rsync\s+version\s+([0-9]+(?:\.[0-9]+)+) matched at index i: group 1 as
\* <<first, last>> indexes, or <<>> when the pattern does not match there.
VersionMatchAt(s, i) ==
    LET a == i + Len(RsyncWord)
        b == SpanEnd(s, a, Whitespace)
        c == b + Len(VersionWord)
        d == SpanEnd(s, c, Whitespace)
        e == SpanEnd(s, d, Digits)
        f == DotGroupsEnd(s, e)
    IN  IF /\ OccursAt(s, i, RsyncWord)
           /\ b > a
           /\ OccursAt(s, b, VersionWord)
           /\ d > c
           /\ e > d
           /\ f > e
        THEN <<d, f - 1>>
        ELSE <<>>

\* parse_rsync_version(output): re.search takes the leftmost match; the
\* components are split on ".", converted with int() and padded with 0
\* while there are fewer than three.
parse_rsync_version(out) ==
    LET starts == {i \in 1..Len(out) : VersionMatchAt(out, i) # <<>>}
    IN  IF starts = {}
        THEN [ok |-> FALSE, raised |-> "RuntimeError"]
        ELSE LET i == CHOOSE j \in starts : \A k \in starts : j <= k
                 g == VersionMatchAt(out, i)
                 version_str == SubSeq(out, g[1], g[2])
                 pieces == Split(version_str, ".")
                 parts == [k \in 1..Len(pieces) |-> ParseInt(pieces[k])]
                 padded == IF Len(parts) < 3
                           THEN parts \o [k \in 1..(3 - Len(parts)) |-> 0]
                           ELSE parts
             IN  [ok |-> TRUE, version_str |-> version_str, parts |-> padded]

-----------------------------------------------------------------------------
(* build_rsync_command                                                      *)

ToolName == <<"r", "s", "y", "n", "c">>

DryRunFlag == <<"-", "-", "d", "r", "y", "-", "r", "u", "n">>

ArchiveFlag == <<"-", "a", "h">>

DeleteFlag == <<"-", "-", "d", "e", "l", "e", "t", "e">>

InfoFlag == <<"-", "-", "i", "n", "f", "o", "=", "s", "t", "a", "t", "s", "2",
              ",", "p", "r", "o", "g", "r", "e", "s", "s", "2">>

ExcludeOpt == <<"-", "-", "e", "x", "c", "l", "u", "d", "e", "=">>

BackupFlag == <<"-", "-", "b", "a", "c", "k", "u", "p">>

BackupDirOpt == <<"-", "-", "b", "a", "c", "k", "u", "p", "-", "d", "i", "r", "=">>

\* Mutated builds.
build_rsync_command_appending(src, dst, backup_dir, exclude_pattern, dry_run_) ==
    LET opts0 == <<ArchiveFlag, DeleteFlag, InfoFlag,
                   ExcludeOpt \o exclude_pattern, BackupFlag,
                   BackupDirOpt \o backup_dir>>
        opts == IF dry_run_ THEN opts0 \o <<DryRunFlag>> ELSE opts0
        src_with_slash == RStrip(src, {os_sep}) \o <<os_sep>>
    IN  <<ToolName>> \o opts \o <<src_with_slash, dst>>

build_rsync_command_no_strip(src, dst, backup_dir, exclude_pattern, dry_run_) ==
    LET opts0 == <<ArchiveFlag, DeleteFlag, InfoFlag,
                   ExcludeOpt \o exclude_pattern, BackupFlag,
                   BackupDirOpt \o backup_dir>>
        opts == IF dry_run_ THEN <<DryRunFlag>> \o opts0 ELSE opts0
        src_with_slash == src \o <<os_sep>>
    IN  <<ToolName>> \o opts \o <<src_with_slash, dst>>

build_rsync_command_swapped(src, dst, backup_dir, exclude_pattern, dry_run_) ==
    LET opts0 == <<ArchiveFlag, DeleteFlag, InfoFlag,
                   ExcludeOpt \o exclude_pattern, BackupFlag,
                   BackupDirOpt \o backup_dir>>
        opts == IF dry_run_ THEN <<DryRunFlag>> \o opts0 ELSE opts0
        src_with_slash == RStrip(src, {os_sep}) \o <<os_sep>>
    IN  <<ToolName>> \o opts \o <<dst, src_with_slash>>

\* build_rsync_command(src, dst, backup_dir, exclude_pattern, dry_run)
build_rsync_command(src, dst, backup_dir, exclude_pattern, dry_run_) ==
    LET opts0 == <<ArchiveFlag, DeleteFlag, InfoFlag,
                   ExcludeOpt \o exclude_pattern, BackupFlag,
                   BackupDirOpt \o backup_dir>>
        opts == IF dry_run_ THEN <<DryRunFlag>> \o opts0 ELSE opts0
        src_with_slash == RStrip(src, {os_sep}) \o <<os_sep>>
    IN  <<ToolName>> \o opts \o <<src_with_slash, dst>>

-----------------------------------------------------------------------------
(* The run of main(): inputs.                                               *)

NoFile == "NoFile"

\* check_rsync's default min_version.
min_version == <<3, 2, 0>>

\* The comparison with `<=` in place of `<`.
RECURSIVE TupleLess_or_equal(_, _)
TupleLess_or_equal(a, b) ==
    IF Len(a) = 0 THEN TRUE
    ELSE IF Len(b) = 0 THEN FALSE
    ELSE IF Head(a) # Head(b) THEN Head(a) < Head(b)
    ELSE TupleLess_or_equal(Tail(a), Tail(b))

\* Python's tuple comparison a < b: lexicographic, a proper prefix is less.
RECURSIVE TupleLess(_, _)
TupleLess(a, b) ==
    IF Len(b) = 0 THEN FALSE
    ELSE IF Len(a) = 0 THEN TRUE
    ELSE IF Head(a) # Head(b) THEN Head(a) < Head(b)
    ELSE TupleLess(Tail(a), Tail(b))

\* What platform.system() may return.
Platforms == {"Linux", "Windows"}

\* What `rsync --version` prints, in the runs of the model.
MainVersionOutputs ==
    { <<"r", "s", "y", "n", "c", " ", " ", "v", "e", "r", "s", "i", "o", "n", " ", " ", "3", ".", "2", ".", "7", " ", " ", "p", "r", "o", "t", "o", "c", "o", "l", " ", "3", "1", "\n">>,
      <<"r", "s", "y", "n", "c", " ", " ", "v", "e", "r", "s", "i", "o", "n", " ", " ", "3", ".", "1", ".", "0", " ", " ", "p", "r", "o", "t", "o", "c", "o", "l", " ", "3", "0", "\n">>,
      <<"r", "s", "y", "n", "c", " ", "v", "e", "r", "s", "i", "o", "n", " ", "3", ".", "2", "\n">>,
      <<"o", "p", "e", "n", "r", "s", "y", "n", "c", ":", " ", "p", "r", "o", "t", "o", "c", "o", "l", " ", "2", "9", "\n">>,
      <<"r", "s", "y", "n", "c", " ", "v", "e", "r", "s", "i", "o", "n", " ", "4", ".", "0", ".", "0", "\n">>,
      <<"r", "s", "y", "n", "c", " ", "v", "e", "r", "s", "i", "o", "n", " ", "2", ".", "9", ".", "9", "\n">>,
      <<"r", "s", "y", "n", "c", " ", "v", "e", "r", "s", "i", "o", "n", " ", "3", ".", "1", "0", ".", "0", "\n">>,
      <<"r", "s", "y", "n", "c", " ", "v", "e", "r", "s", "i", "o", "n", " ", "3", ".", "2", ".", "0", ".", "1", "\n">>,
      <<"r", "s", "y", "n", "c", " ", "v", "e", "r", "s", "i", "o", "n", " ", "3", ".", "1", ".", "9", ".", "9", "\n">> }

\* src and dst as abspath returns them (l. 282-283), and the timestamp of
\* l. 284 and l. 247.
SrcPath == <<"/", "s">>

DstPath == <<"/", "d">>

Timestamp == <<"2", "0", "2", "5", "-", "0", "4", "-", "1", "8", "_", "1", "5", "-", "0", "0", "-", "0", "0">>

BackupPrefix == <<"0", "0", "0", "_", "r", "s", "y", "n", "c", "_", "b", "a", "c", "k", "u", "p", "_">>

\* os.path.join(dst, f"000_rsync_backup_{timestamp}")  (l. 285)
BackupDirPath == DstPath \o <<os_sep>> \o BackupPrefix \o Timestamp

\* The pattern without its wildcard.
ExcludePattern_without_wildcard == BackupPrefix

\* exclude_pattern (l. 245)
ExcludePattern == <<"0", "0", "0", "_", "r", "s", "y", "n", "c", "_", "b", "a", "c", "k", "u", "p", "_", "*">>

\* The lines the child may write (each as the iteration over proc.stdout
\* yields it, line end included).
OutputLines ==
    { <<" ", "\n">>,
      <<"T", "o", "t", "a", "l", " ", "5", "%", "\n">>,
      <<"s", "e", "n", "t", " ", "1", " ", "\n">>,
      <<"9", "%", " ", "t", "o", "-", "c", "h", "k", "=", "1", "\n">>,
      <<"t", "o", "-", "c", "h", "k", "=", "0", "\n">>,
      <<"5", "%", "\n">>,
      <<" ", "T", "o", "t", "a", "l", "\n">> }

\* proc.returncode once the child has ended: an exit status in 0..255, or
\* -N for a child killed by signal N.
ReturnCodes == {0, 23, 255, -15}

NoChild == [state |-> "none", returncode |-> NoValue, termSent |-> FALSE]

-----------------------------------------------------------------------------
(* execute_rsync: classification and rendering of one line.                 *)

StatPrefixes ==
    { <<"N", "u", "m", "b", "e", "r", " ", "o", "f">>,
      <<"T", "o", "t", "a", "l">>,
      <<"L", "i", "t", "e", "r", "a", "l">>,
      <<"M", "a", "t", "c", "h", "e", "d">>,
      <<"F", "i", "l", "e", " ", "l", "i", "s", "t">>,
      <<"s", "e", "n", "t">>,
      <<"t", "o", "t", "a", "l", " ", "s", "i", "z", "e">> }

Percent == <<"%">>

ToChk == <<"t", "o", "-", "c", "h", "k", "=">>

\* re.match(r"^(Number of|Total|Literal|Matched|File list|sent|total size)", line)
IsStatLine(line) == \E p \in StatPrefixes : StartsWith(line, p)

\* "%" in line or "to-chk=" in line
IsProgressLine(line) == Contains(line, Percent) \/ Contains(line, ToChk)

\* A mutated classification: the progress test comes before the prefix test.
Classify_progress_first(line) ==
    IF Len(line) = 0 THEN "discard"
    ELSE IF IsProgressLine(line) THEN "progress"
    ELSE IF IsStatLine(line) THEN "stat"
    ELSE "drop"

\* The if / elif chain of l. 175-183 on the stripped line.
Classify(line) ==
    IF Len(line) = 0 THEN "discard"
    ELSE IF IsStatLine(line) THEN "stat"
    ELSE IF IsProgressLine(line) THEN "progress"
    ELSE "drop"

Max(a, b) == IF a >= b THEN a ELSE b

\* A mutated rendering: no padding.
Padding_none(prev, line) == <<>>

\* " " * max(prev_len - len(line), 0)
Padding(prev, line) == [k \in 1..Max(prev - Len(line), 0) |-> " "]

\* f"\r{line}{padding}"  (l. 182)
ProgressText(prev, line) == <<"\r">> \o line \o Padding(prev, line)

\* What the console's current line shows after "\r" and then text are
\* written over it.
Overwrite(cur, text) ==
    [k \in 1..Max(Len(cur), Len(text)) |->
        IF k <= Len(text) THEN text[k] ELSE cur[k]]

\* A mutated buffer: a statistic line replaces the buffer.
AppendStat_replacing(buf, line) == <<line>>

\* stats.append(line)  (l. 179)
AppendStat(buf, line) == Append(buf, line)

\* A mutated terminate: no signal is sent.
Terminate_skipped(c) == c

\* proc.terminate()  (l. 185)
Terminate(c) == [c EXCEPT !.termSent = TRUE]

\* A mutated exit: sys.exit() without the code, status 0.
ProcessExitStatus_zero(code) == 0

\* A mutated exit: always status 1.
ProcessExitStatus_one(code) == 1

\* sys.exit(code) with an int: the process's exit status is code & 0xFF.
ProcessExitStatus(code) == code % 256


-----------------------------------------------------------------------------
(* The run of main(): steps.                                                *)

\* str.join: the items with sep between them  (l. 208)
RECURSIVE Join(_, _)
Join(items, sep) ==
    IF Len(items) = 0 THEN <<>>
    ELSE IF Len(items) = 1 THEN items[1]
    ELSE items[1] \o sep \o Join(Tail(items), sep)

\* The decimal digits of a natural number.
RECURSIVE IntToStr(_)
IntToStr(n) ==
    IF n < 10 THEN <<DigitChars[n + 1]>>
    ELSE IntToStr(n \div 10) \o <<DigitChars[(n % 10) + 1]>>

\* f"{duration:.2f}" for a duration of c hundredths of a second  (l. 211)
FormatFixed2(c) ==
    IntToStr(c \div 100) \o <<".">> \o IntToStr((c % 100) \div 10) \o IntToStr(c % 10)

\* The texts of save_summary.  "-" stands for the box-drawing character
\* U+2500 of the separator.
SummaryHeading == <<"R", "s", "y", "n", "c", " ", "s", "u", "m", "m", "a", "r", "y", " ", "f", "o", "r", " ">>

SeparatorLine == [k \in 1..40 |-> "-"]

DurationLabel == <<"D", "u", "r", "a", "t", "i", "o", "n", ":", " ">>

SecondsWord == <<" ", "s", "e", "c", "o", "n", "d", "s">>

\* save_summary with open(path, "a"): the old content is kept.
save_summary_appending(before, timestamp, lines, duration) ==
    LET opened == IF before = NoFile THEN <<>> ELSE before
        w1 == opened \o SummaryHeading \o timestamp \o <<"\n">>
        w2 == w1 \o <<"\n">> \o SeparatorLine \o <<"\n">>
        w3 == w2 \o Join(lines, <<"\n">>)
        w4 == w3 \o <<"\n">> \o SeparatorLine \o <<"\n">>
    IN  w4 \o <<"\n">> \o DurationLabel \o FormatFixed2(duration) \o SecondsWord \o <<"\n">>

\* save_summary (l. 197-211): the content of the file at path after the
\* call, `before` being NoFile or the content it had.  open(path, "w")
\* truncates; each fh.write appends its text.
save_summary(before, timestamp, lines, duration) ==
    LET opened == <<>>
        w1 == opened \o SummaryHeading \o timestamp \o <<"\n">>
        w2 == w1 \o <<"\n">> \o SeparatorLine \o <<"\n">>
        w3 == w2 \o Join(lines, <<"\n">>)
        w4 == w3 \o <<"\n">> \o SeparatorLine \o <<"\n">>
    IN  w4 \o <<"\n">> \o DurationLabel \o FormatFixed2(duration) \o SecondsWord \o <<"\n">>

\* The timestamp run_rsync takes for the log (l. 247): that of main or a
\* later one.
RunTimestamps == { Timestamp, <<"2", "0", "2", "5", "-", "0", "4", "-", "1", "8", "_", "1", "5", "-", "0", "0", "-", "0", "1">> }

LogPrefix == <<"0", "0", "0", "_", "r", "s", "y", "n", "c", "_", "l", "o", "g", "_">>

LogSuffix == <<".", "l", "o", "g">>

\* os.path.join(backup_dir, f"000_rsync_log_{timestamp}.log")  (l. 248)
LogPath(backup_dir, timestamp) ==
    backup_dir \o <<os_sep>> \o LogPrefix \o timestamp \o LogSuffix

\* duration = time.time() - start, in hundredths of a second  (l. 253-255)
Durations == {0, 123, 1005}

Init ==
    /\ pc = "check_platform"
    /\ dry_run \in BOOLEAN
    /\ version = NoValue
    /\ spawned = <<>>
    /\ backupDir = "absent"
    /\ logFile = NoFile
    /\ cmd = NoValue
    /\ child = NoChild
    /\ output = <<>>
    /\ stats = <<>>
    /\ prev_len = 0
    /\ curLine = <<>>
    /\ printed = <<>>
    /\ console = <<>>
    /\ runStats = NoValue
    /\ exitStatus = NoValue
    /\ failure = "none"
    /\ steps = <<>>
    /\ args = NoValue
    /\ result = NoValue
    /\ calls = 0

\* abort(msg, code) (l. 48-51): the message in red, then sys.exit(code).
\* SystemExit is caught nowhere; `next` is where it leaves the control
\* thread ("exited", or "unwind" inside the with block of execute_rsync).
Abort(kind, code, next) ==
    /\ console' = Append(console, "error")
    /\ failure' = kind
    /\ exitStatus' = ProcessExitStatus(code)
    /\ pc' = next

\* An exception nothing catches: the interpreter prints the traceback and
\* the process ends with status 1.
Uncaught(kind) ==
    /\ console' = Append(console, "traceback")
    /\ failure' = kind
    /\ exitStatus' = 1
    /\ pc' = "exited"

\* check_platform()  (l. 54-57, 269)
CheckPlatform ==
    /\ pc = "check_platform"
    /\ \E platformName \in Platforms :
          IF platformName = "Windows"
          THEN Abort("UnsupportedPlatform", 1, "exited")
          ELSE /\ pc' = "check_source"
               /\ UNCHANGED <<console, failure, exitStatus>>
    /\ steps' = Append(steps, "check_platform")
    /\ UNCHANGED <<dry_run, version,
                   spawned, backupDir, logFile, cmd, child, output, stats,
                   prev_len, curLine, printed, runStats, unitVars>>

\* A mutated main: run_rsync is called without check_rsync before it.
CheckSource_without_tool_check ==
    /\ pc = "check_source"
    /\ \E srcIsDir \in BOOLEAN :
          IF ~srcIsDir
          THEN Abort("SourceNotFound", 1, "exited")
          ELSE /\ pc' = "makedirs"
               /\ UNCHANGED <<console, failure, exitStatus>>
    /\ steps' = Append(steps, "isdir")
    /\ UNCHANGED <<dry_run, version,
                   spawned, backupDir, logFile, cmd, child, output, stats,
                   prev_len, curLine, printed, runStats, unitVars>>

\* The arguments are parsed, the paths made absolute, and the source is
\* checked  (l. 271-288)
CheckSource ==
    /\ pc = "check_source"
    /\ \E srcIsDir \in BOOLEAN :
          IF ~srcIsDir
          THEN Abort("SourceNotFound", 1, "exited")
          ELSE /\ pc' = "check_rsync"
               /\ UNCHANGED <<console, failure, exitStatus>>
    /\ steps' = Append(steps, "isdir")
    /\ UNCHANGED <<dry_run, version,
                   spawned, backupDir, logFile, cmd, child, output, stats,
                   prev_len, curLine, printed, runStats, unitVars>>

\* A mutated check_rsync: the version query is spawned before $PATH is
\* searched.
CheckRsync_query_first ==
    /\ pc = "check_rsync"
    /\ spawned' = Append(spawned, "version")
    /\ \E rsyncOnPath \in BOOLEAN :
          IF ~rsyncOnPath
          THEN /\ Abort("ToolNotFound", 1, "exited")
               /\ UNCHANGED version
          ELSE \E versionOutput \in MainVersionOutputs :
                  LET v == parse_rsync_version(versionOutput)
                  IN  IF ~v.ok
                      THEN /\ Uncaught("VersionParseError")
                           /\ UNCHANGED version
                      ELSE /\ version' = v.parts
                           /\ IF TupleLess(v.parts, min_version)
                              THEN Abort("VersionTooOld", 1, "exited")
                              ELSE /\ console' = Append(console, "version_ok")
                                   /\ pc' = "makedirs"
                                   /\ UNCHANGED <<failure, exitStatus>>
    /\ steps' = Append(steps, "check_rsync")
    /\ UNCHANGED <<dry_run, backupDir, logFile, cmd, child, output, stats,
                   prev_len, curLine, printed, runStats, unitVars>>

\* check_rsync()  (l. 80-95, 290): the search of $PATH, then the version
\* query (one child process) and the comparison with min_version.
CheckRsync ==
    /\ pc = "check_rsync"
    /\ \E rsyncOnPath \in BOOLEAN :
          IF ~rsyncOnPath
          THEN /\ Abort("ToolNotFound", 1, "exited")
               /\ UNCHANGED <<spawned, version>>
          ELSE /\ spawned' = Append(spawned, "version")
               /\ \/ \* check_output raises (the query exits non-zero)
                     /\ Uncaught("CalledProcessError")
                     /\ UNCHANGED version
                  \/ \E versionOutput \in MainVersionOutputs :
                        LET v == parse_rsync_version(versionOutput)
                        IN  IF ~v.ok
                            THEN /\ Uncaught("VersionParseError")
                                 /\ UNCHANGED version
                            ELSE /\ version' = v.parts
                                 /\ IF TupleLess(v.parts, min_version)
                                    THEN Abort("VersionTooOld", 1, "exited")
                                    ELSE /\ console' = Append(console, "version_ok")
                                         /\ pc' = "makedirs"
                                         /\ UNCHANGED <<failure, exitStatus>>
    /\ steps' = Append(steps, "check_rsync")
    /\ UNCHANGED <<dry_run, backupDir, logFile, cmd, child, output, stats,
                   prev_len, curLine, printed, runStats, unitVars>>

\* A mutated run_rsync: the directory is made in a dry run too.
MakesBackupDir_always(dry) == TRUE

\* The condition inverted: the directory is made in a dry run only.
MakesBackupDir_inverted(dry) == dry

\* if not dry_run: os.makedirs(...)  (l. 242)
MakesBackupDir(dry) == ~dry

\* run_rsync: os.makedirs(backup_dir, exist_ok=True)  (l. 242-243)
MakeBackupDir ==
    /\ pc = "makedirs"
    /\ IF MakesBackupDir(dry_run)
       THEN \/ /\ backupDir' = "present"
               /\ pc' = "build"
               /\ UNCHANGED <<console, failure, exitStatus>>
            \/ \* os.makedirs raises OSError
               /\ Uncaught("MakedirsFailed")
               /\ UNCHANGED backupDir
       ELSE /\ pc' = "build"
            /\ UNCHANGED <<backupDir, console, failure, exitStatus>>
    /\ version' = NoValue   \* check_rsync has returned: its local is gone
    /\ steps' = IF MakesBackupDir(dry_run) THEN Append(steps, "makedirs") ELSE steps
    /\ UNCHANGED <<dry_run,
                   spawned, logFile, cmd, child, output, stats,
                   prev_len, curLine, printed, runStats, unitVars>>

\* run_rsync: cmd = build_rsync_command(...)  (l. 245-250)
BuildCommand ==
    /\ pc = "build"
    /\ cmd' = build_rsync_command(SrcPath, DstPath, BackupDirPath,
                                  ExcludePattern, dry_run)
    /\ pc' = "header"
    /\ steps' = Append(steps, "build_rsync_command")
    /\ UNCHANGED <<dry_run, version,
                   spawned, backupDir, logFile, child, output, stats,
                   prev_len, curLine, printed, console, runStats, exitStatus, failure,
                   unitVars>>

\* run_rsync: print_rsync_header(...)  (l. 251, 135-152)
PrintHeader ==
    /\ pc = "header"
    /\ console' = Append(console, "header")
    /\ pc' = "spawn"
    /\ steps' = Append(steps, "print_rsync_header")
    /\ UNCHANGED <<dry_run, version,
                   spawned, backupDir, logFile, cmd, child, output, stats,
                   prev_len, curLine, printed, runStats, exitStatus, failure, unitVars>>

\* execute_rsync: stats = [], prev_len = 0, subprocess.Popen(cmd, ...)
\* (l. 168-171)
SpawnSync ==
    /\ pc = "spawn"
    /\ stats' = <<>>
    /\ prev_len' = 0
    /\ spawned' = Append(spawned, "sync")
    /\ child' = [state |-> "running", returncode |-> NoValue, termSent |-> FALSE]
    /\ pc' = "stream"
    /\ steps' = Append(steps, "execute_rsync")
    /\ UNCHANGED <<dry_run, version,
                   backupDir, logFile, cmd, output, curLine, printed, console, runStats,
                   exitStatus, failure, unitVars>>

\* execute_rsync: one iteration of `for line in proc.stdout`  (l. 173-183)
ReadLine(raw) ==
    /\ pc = "stream"
    /\ Len(output) < MaxLines
    /\ output' = Append(output, raw)
    /\ LET line == RStrip(raw, Whitespace)
           kind == Classify(line)
       IN  /\ stats' = IF kind = "stat" THEN AppendStat(stats, line) ELSE stats
           /\ printed' = IF kind = "progress"
                         THEN Append(printed, ProgressText(prev_len, line))
                         ELSE printed
           /\ curLine' = IF kind = "progress"
                         THEN Overwrite(curLine, line \o Padding(prev_len, line))
                         ELSE curLine
           /\ prev_len' = IF kind = "progress" THEN Len(line) ELSE prev_len
    /\ UNCHANGED <<pc, dry_run, steps, version, spawned, backupDir, logFile, cmd, child,
                   console, runStats, exitStatus, failure, unitVars>>

\* execute_rsync: the stream ends, print()  (l. 173, 188)
EndOfStream ==
    /\ pc = "stream"
    /\ curLine' = <<>>
    /\ pc' = "wait"
    /\ UNCHANGED <<dry_run, steps, version,
                   spawned, backupDir, logFile, cmd, child, output, stats,
                   prev_len, printed, console, runStats, exitStatus, failure, unitVars>>

\* The child process ends, by itself or upon a signal.
ChildExit(rc) ==
    /\ child.state = "running"
    /\ pc \in {"stream", "interrupted", "wait", "unwind"}
    /\ child' = [child EXCEPT !.state = "exited", !.returncode = rc]
    /\ UNCHANGED <<pc, dry_run, steps, version, spawned, backupDir, logFile, cmd, output,
                   stats, prev_len, curLine, printed, console, runStats, exitStatus,
                   failure, unitVars>>

\* execute_rsync: KeyboardInterrupt in the loop, proc.terminate()
\* (l. 184-185)
InterruptStream ==
    /\ pc = "stream"
    /\ child' = Terminate(child)
    /\ pc' = "interrupted"
    /\ UNCHANGED <<dry_run, steps, version,
                   spawned, backupDir, logFile, cmd, output, stats, prev_len,
                   curLine, printed, console, runStats, exitStatus, failure, unitVars>>

\* execute_rsync: abort("Interrupted by user.")  (l. 186)
InterruptAbort ==
    /\ pc = "interrupted"
    /\ Abort("Interrupted", 1, "unwind")
    /\ UNCHANGED <<dry_run, steps, version,
                   spawned, backupDir, logFile, cmd, child, output, stats,
                   prev_len, curLine, printed, runStats, unitVars>>

\* KeyboardInterrupt outside the try block, in print() or proc.wait()
\* (l. 188-189): nothing catches it. Popen.__exit__ does not wait for the
\* child on a KeyboardInterrupt, and the interpreter ends the process as
\* killed by SIGINT (status 128 + 2 to a shell).
InterruptWait ==
    /\ pc = "wait"
    /\ console' = Append(console, "traceback")
    /\ failure' = "KeyboardInterrupt"
    /\ exitStatus' = 128 + 2
    /\ pc' = "exited"
    /\ UNCHANGED <<dry_run, steps, version,
                   spawned, backupDir, logFile, cmd, child, output, stats,
                   prev_len, curLine, printed, runStats, unitVars>>

\* A mutated execute_rsync: after a non-zero return code the command is run
\* once more.
WaitChild_retrying ==
    /\ pc = "wait"
    /\ child.state = "exited"
    /\ IF child.returncode # 0
       THEN IF Len(spawned) < 3
            THEN /\ pc' = "spawn"
                 /\ UNCHANGED <<console, failure, exitStatus, runStats>>
            ELSE /\ Abort("ToolExecutionFailed", child.returncode, "unwind")
                 /\ UNCHANGED runStats
       ELSE /\ runStats' = stats
            /\ pc' = "save_summary"
            /\ UNCHANGED <<console, failure, exitStatus>>
    /\ UNCHANGED <<dry_run, steps, version,
                   spawned, backupDir, logFile, cmd, child, output, stats,
                   prev_len, curLine, printed, unitVars>>

\* execute_rsync: proc.wait() returns, the return code is checked, the
\* statistics are returned  (l. 189-194)
WaitChild ==
    /\ pc = "wait"
    /\ child.state = "exited"
    /\ IF child.returncode # 0
       THEN /\ Abort("ToolExecutionFailed", child.returncode, "unwind")
            /\ UNCHANGED runStats
       ELSE /\ runStats' = stats
            /\ pc' = "save_summary"
            /\ UNCHANGED <<console, failure, exitStatus>>
    /\ UNCHANGED <<dry_run, steps, version,
                   spawned, backupDir, logFile, cmd, child, output, stats,
                   prev_len, curLine, printed, unitVars>>

\* SystemExit leaves the with block of l. 171: Popen.__exit__ waits for the
\* child, then the process ends.
Unwind ==
    /\ pc = "unwind"
    /\ child.state = "exited"
    /\ pc' = "exited"
    /\ UNCHANGED <<dry_run, steps, version,
                   spawned, backupDir, logFile, cmd, child, output, stats,
                   prev_len, curLine, printed, console, runStats, exitStatus, failure,
                   unitVars>>

\* A mutated run_rsync: the log is written in a dry run too.
WritesLog_always(dry) == TRUE

\* if not dry_run: save_summary(...)  (l. 257)
WritesLog(dry) == ~dry

\* A mutated run_rsync: the OSError of save_summary is caught and the run
\* goes on.
SaveSummary_swallowing ==
    /\ pc = "save_summary"
    /\ IF WritesLog(dry_run)
       THEN \E timestamp \in RunTimestamps, duration \in Durations :
               LET log_file == LogPath(BackupDirPath, timestamp)
               IN  \/ /\ logFile' = <<log_file,
                                       save_summary(NoFile, timestamp, runStats, duration)>>
                      /\ pc' = "print_summary"
                      /\ UNCHANGED <<console, failure, exitStatus>>
                   \/ /\ failure' = "PersistenceFailed"
                      /\ pc' = "print_summary"
                      /\ UNCHANGED <<logFile, console, exitStatus>>
       ELSE /\ pc' = "print_summary"
            /\ UNCHANGED <<logFile, console, failure, exitStatus>>
    /\ steps' = IF WritesLog(dry_run) THEN Append(steps, "save_summary") ELSE steps
    /\ UNCHANGED <<dry_run, version,
                   spawned, backupDir, cmd, child, output, stats,
                   prev_len, curLine, printed, runStats, unitVars>>

\* run_rsync: save_summary(timestamp, stats, log_file, duration)
\* (l. 257-258, 197-211)
SaveSummary ==
    /\ pc = "save_summary"
    /\ IF WritesLog(dry_run)
       THEN \E timestamp \in RunTimestamps, duration \in Durations :
               LET log_file == LogPath(BackupDirPath, timestamp)
               IN  \/ /\ logFile' = <<log_file,
                                       save_summary(NoFile, timestamp, runStats, duration)>>
                      /\ pc' = "print_summary"
                      /\ UNCHANGED <<console, failure, exitStatus>>
                   \/ \* open() raises OSError: no file
                      /\ Uncaught("PersistenceFailed")
                      /\ UNCHANGED logFile
                   \/ \* a write or the closing flush raises OSError:
                      \* the file is there, the buffered text is lost
                      /\ Uncaught("PersistenceFailed")
                      /\ logFile' = <<log_file, <<>>>>
       ELSE /\ pc' = "print_summary"
            /\ UNCHANGED <<logFile, console, failure, exitStatus>>
    /\ steps' = IF WritesLog(dry_run) THEN Append(steps, "save_summary") ELSE steps
    /\ UNCHANGED <<dry_run, version,
                   spawned, backupDir, cmd, child, output, stats,
                   prev_len, curLine, printed, runStats, unitVars>>

\* run_rsync: print_summary(stats, duration)  (l. 260, 214-226)
PrintSummary ==
    /\ pc = "print_summary"
    /\ console' = Append(console, "summary")
    /\ pc' = "report"
    /\ steps' = Append(steps, "print_summary")
    /\ UNCHANGED <<dry_run, version,
                   spawned, backupDir, logFile, cmd, child, output, stats,
                   prev_len, curLine, printed, runStats, exitStatus, failure, unitVars>>

\* main: the final report, and the process ends with status 0  (l. 293-302)
FinalReport ==
    /\ pc = "report"
    /\ console' = Append(console, "complete")
    /\ exitStatus' = 0
    /\ pc' = "exited"
    /\ steps' = Append(steps, "report")
    /\ UNCHANGED <<dry_run, version,
                   spawned, backupDir, logFile, cmd, child, output, stats,
                   prev_len, curLine, printed, runStats, failure, unitVars>>

Next ==
    \/ CheckPlatform
    \/ CheckSource
    \/ CheckRsync
    \/ MakeBackupDir
    \/ BuildCommand
    \/ PrintHeader
    \/ SpawnSync
    \/ \E raw \in OutputLines : ReadLine(raw)
    \/ EndOfStream
    \/ \E rc \in ReturnCodes : ChildExit(rc)
    \/ InterruptStream
    \/ InterruptAbort
    \/ InterruptWait
    \/ WaitChild
    \/ Unwind
    \/ SaveSummary
    \/ PrintSummary
    \/ FinalReport

Spec == Init /\ [][Next]_vars

-----------------------------------------------------------------------------
(* Unit specifications: one call of a pure function on inputs drawn from    *)
(* bounded sets. The run of main() stands still.                            *)

MainIdle ==
    /\ pc = "unit"
    /\ dry_run = FALSE
    /\ version = NoValue
    /\ spawned = <<>>
    /\ backupDir = "absent"
    /\ logFile = NoFile
    /\ cmd = NoValue
    /\ child = NoChild
    /\ output = <<>>
    /\ stats = <<>>
    /\ prev_len = 0
    /\ curLine = <<>>
    /\ printed = <<>>
    /\ console = <<>>
    /\ runStats = NoValue
    /\ exitStatus = NoValue
    /\ failure = "none"
    /\ steps = <<>>

\* Every string over alphabet of length 0..n.
RECURSIVE StringsUpTo(_, _)
StringsUpTo(alphabet, n) ==
    IF n = 0 THEN {<<>>}
    ELSE LET shorter == StringsUpTo(alphabet, n - 1)
         IN  shorter \cup {Append(w, c) : w \in shorter, c \in alphabet}

\* Source paths: with zero, one or several trailing separators.
SourcePaths == StringsUpTo({"a", os_sep}, MaxPathLen)

DestinationPaths == { <<"/", "d">>, <<"d", "/">> }

BackupDirPaths == { BackupDirPath, <<"b">> }

ExcludePatterns == { ExcludePattern, <<"*">> }

InitBuild ==
    /\ MainIdle
    /\ args \in [src : SourcePaths, dst : DestinationPaths,
                 backup_dir : BackupDirPaths,
                 exclude_pattern : ExcludePatterns, dry_run : BOOLEAN]
    /\ result = NoValue
    /\ calls = 0

\* cmd = build_rsync_command(src, dst, backup_dir, exclude_pattern, dry_run)
CallBuild ==
    /\ calls = 0
    /\ result' = build_rsync_command(args.src, args.dst, args.backup_dir,
                                     args.exclude_pattern, args.dry_run)
    /\ calls' = 1
    /\ UNCHANGED <<args, mainVars>>

\* The source argument of a built command.
SourceArg(command) == command[Len(command) - 1]

\* The built source argument is given to build_rsync_command again.
CallBuildAgain ==
    /\ calls = 1
    /\ args' = [args EXCEPT !.src = SourceArg(result)]
    /\ result' = build_rsync_command(args'.src, args.dst, args.backup_dir,
                                     args.exclude_pattern, args.dry_run)
    /\ calls' = 2
    /\ UNCHANGED mainVars

NextBuild == CallBuild \/ CallBuildAgain

SpecBuild == InitBuild /\ [][NextBuild]_vars

\* Version numbers as the tool prints them, each with its value.
NumberTexts ==
    { [text |-> <<"0">>, value |-> 0],
      [text |-> <<"3">>, value |-> 3],
      [text |-> <<"1", "2">>, value |-> 12],
      [text |-> <<"0", "7">>, value |-> 7] }

\* The dotted version numbers of 1..n components: the text and the values.
RECURSIVE DottedVersions(_)
DottedVersions(n) ==
    IF n = 1
    THEN {[text |-> x.text, comps |-> <<x.value>>] : x \in NumberTexts}
    ELSE LET shorter == DottedVersions(n - 1)
         IN  shorter \cup
             {[text |-> v.text \o <<".">> \o x.text,
               comps |-> Append(v.comps, x.value)] :
                  v \in {w \in shorter : Len(w.comps) = n - 1},
                  x \in NumberTexts}

\* The white space after "rsync" and after "version".
VersionGaps ==
    { <<<<" ">>, <<" ">>>>, <<<<" ", " ">>, <<"\t">>>>, <<<<>>, <<" ">>>>, <<<<" ">>, <<>>>> }

VersionPrefixes == { <<>>, <<"x", "\n">> }

VersionSuffixes == { <<>>, <<" ", " ", "p", "r", "o", "t", "o", "c", "o", "l", " ", "3", "1", "\n">>, <<".">>, <<"p", "r", "e", "1">> }

\* Outputs of `rsync --version`: text is the output; comps are the
\* components of the version number it reports; dotted says whether text
\* holds "rsync version" followed by a dotted number (two components or
\* more).
VersionInputs ==
    { [text |-> pre \o RsyncWord \o gap[1] \o VersionWord \o gap[2] \o v.text \o post,
       comps |-> v.comps,
       dotted |-> Len(gap[1]) > 0 /\ Len(gap[2]) > 0 /\ Len(v.comps) >= 2] :
          pre \in VersionPrefixes, gap \in VersionGaps,
          v \in DottedVersions(MaxComponents), post \in VersionSuffixes }

InitParse ==
    /\ MainIdle
    /\ args \in VersionInputs
    /\ result = NoValue
    /\ calls = 0

\* version_str, version = parse_rsync_version(output)
CallParse ==
    /\ calls = 0
    /\ result' = parse_rsync_version(args.text)
    /\ calls' = 1
    /\ UNCHANGED <<args, mainVars>>

NextParse == CallParse

SpecParse == InitParse /\ [][NextParse]_vars

\* save_summary on its own: stats as execute_rsync returns them (trimmed
\* lines with a statistics prefix), and a log file that is absent or holds
\* something already.
StatLineTexts == { <<"s", "e", "n", "t", " ", "1">>, <<"T", "o", "t", "a", "l", " ", "5", "%">> }

StatsLists == StringsUpTo(StatLineTexts, MaxStats)

OldContents ==
    { NoFile,
      <<"o", "l", "d", " ", "l", "o", "g", "\n">>,
      save_summary(NoFile, Timestamp, <<<<"s", "e", "n", "t", " ", "1">>>>, 0) }

InitSummary ==
    /\ MainIdle
    /\ args \in [timestamp : RunTimestamps, stats : StatsLists,
                 duration : Durations, before : OldContents]
    /\ result = args.before
    /\ calls = 0

\* save_summary(timestamp, stats, log_file, duration); a second call writes
\* the same path again.
CallSave ==
    /\ calls < 2
    /\ result' = save_summary(result, args.timestamp, args.stats, args.duration)
    /\ calls' = calls + 1
    /\ UNCHANGED <<args, mainVars>>

NextSummary == CallSave

SpecSummary == InitSummary /\ [][NextSummary]_vars

-----------------------------------------------------------------------------
(* Claims.                                                                  *)

Range(f) == {f[i] : i \in DOMAIN f}

\* C1: in a dry run the wrapper never creates the backup directory and
\* never writes a log file, whatever the tool prints and however it ends.
DryRunLeavesNoArtifacts ==
    dry_run => (backupDir = "absent" /\ logFile = NoFile)

\* A dry run that read output and ran to its end.
DryRunCompleted ==
    /\ dry_run
    /\ pc = "exited"
    /\ Len(output) > 0
    /\ child.state = "exited"
    /\ exitStatus = 0

\* C2: when rsync is not on the search path the run ends with the
\* tool-not-found failure (status 1) with no child process spawned, neither
\* the version query nor the sync, and no backup directory created.
ToolNotFoundBeforeAnySpawn ==
    failure = "ToolNotFound" =>
        /\ pc = "exited"
        /\ exitStatus = 1
        /\ spawned = <<>>
        /\ child.state = "none"
        /\ backupDir = "absent"

ToolNotFoundReached == failure = "ToolNotFound" /\ pc = "exited"

\* The child ended with exit status c in 1..255 (a child killed by a signal
\* has no exit status: its returncode is negative).
ChildExitedNonZero ==
    /\ child.state = "exited"
    /\ child.returncode \in 1..255

InterruptTerminatesChildFirst ==
    /\ pc = "interrupted" => (child.termSent /\ failure = "none")
    /\ failure = "Interrupted" =>
          /\ child.termSent
          /\ runStats = NoValue
          /\ exitStatus = 1
          /\ pc \in {"unwind", "exited"}
          /\ pc = "exited" => child.state = "exited"

InterruptedWithStatsCollected ==
    /\ failure = "Interrupted"
    /\ pc = "exited"
    /\ Len(stats) > 0

\* The classification of section 4.3, on the line as read.
IsBlankRaw(raw) == \A i \in 1..Len(raw) : raw[i] \in Whitespace

HasStatPrefixRaw(raw) == \E p \in StatPrefixes : StartsWith(raw, p)

HasProgressMarkRaw(raw) ==
    \E i \in 1..Len(raw) : raw[i] = "%" \/ OccursAt(raw, i, ToChk)

\* C5: each line read has exactly one outcome, by priority: blank after the
\* trim -> discarded; else statistic prefix -> buffered (and not rendered,
\* also when it holds "%"); else "%" or "to-chk=" -> rendered (and not
\* buffered); else dropped.
ClassificationIsExclusive ==
    [][(pc = "stream" /\ output' # output) =>
          LET raw == output'[Len(output')]
              line == RStrip(raw, Whitespace)
              buffered == stats' = Append(stats, line)
              rendered == /\ Len(printed') = Len(printed) + 1
                          /\ SubSeq(printed', 1, Len(printed)) = printed
              silent == stats' = stats /\ printed' = printed
          IN  /\ IsBlankRaw(raw) => silent
              /\ (~IsBlankRaw(raw) /\ HasStatPrefixRaw(raw)) =>
                    (buffered /\ printed' = printed)
              /\ (~IsBlankRaw(raw) /\ ~HasStatPrefixRaw(raw)
                     /\ HasProgressMarkRaw(raw)) =>
                    (rendered /\ stats' = stats)
              /\ (~IsBlankRaw(raw) /\ ~HasStatPrefixRaw(raw)
                     /\ ~HasProgressMarkRaw(raw)) => silent
              /\ ~(stats' # stats /\ printed' # printed)]_vars

\* A statistic-prefixed line holding "%" was read: it is buffered, and
\* nothing was rendered.
StatLineWithPercentBuffered ==
    /\ output = << <<"T", "o", "t", "a", "l", " ", "5", "%", "\n">> >>
    /\ stats = << <<"T", "o", "t", "a", "l", " ", "5", "%">> >>
    /\ printed = <<>>

\* The statistic lines among the lines read: those that start with a
\* statistic prefix, trimmed, in the order read.
RECURSIVE StatLinesOf(_)
StatLinesOf(lines) ==
    IF Len(lines) = 0 THEN <<>>
    ELSE LET rest == StatLinesOf(SubSeq(lines, 1, Len(lines) - 1))
             last == lines[Len(lines)]
         IN  IF HasStatPrefixRaw(last)
             THEN Append(rest, RStrip(last, Whitespace))
             ELSE rest

IsPrefixOf(a, b) == Len(a) <= Len(b) /\ SubSeq(b, 1, Len(a)) = a

\* C6: the statistics buffer only grows at its end while streaming, and the
\* list a successful run returns is exactly the statistic-prefixed lines of
\* the child's output, trimmed, in the order received, none lost, none
\* twice.
StatsAreTheStatLinesInOrder ==
    /\ [][pc = "stream" => IsPrefixOf(stats, stats')]_vars
    /\ [](runStats # NoValue =>
            /\ runStats = StatLinesOf(output)
            /\ child.returncode = 0)

\* A successful run that returned two statistic lines out of three lines
\* read.
TwoStatsReturned ==
    /\ pc = "exited"
    /\ exitStatus = 0
    /\ Len(output) = 3
    /\ Len(runStats) = 2
    /\ runStats[1] # runStats[2]

\* C7: the built command holds --dry-run if and only if dry_run is true, and
\* then directly after the tool name, before every other flag and before
\* both paths.
DryRunFlagIffDryRun ==
    calls >= 1 =>
        /\ (DryRunFlag \in Range(result)) <=> args.dry_run
        /\ args.dry_run =>
              /\ result[1] = ToolName
              /\ result[2] = DryRunFlag
              /\ \A i \in 3..Len(result) : result[i] # DryRunFlag

DryRunCommandBuilt ==
    /\ calls >= 1
    /\ calls = 1
    /\ args.dry_run
    /\ result[2] = DryRunFlag

EndsWithOneSeparator(path) ==
    /\ Len(path) >= 1
    /\ path[Len(path)] = os_sep
    /\ Len(path) >= 2 => path[Len(path) - 1] # os_sep

\* C8: whatever the number of trailing separators of src, the source
\* argument of the built command ends with exactly one; and a source that
\* is already normalized comes out unchanged.
SourceEndsWithOneSeparator ==
    calls >= 1 =>
        /\ EndsWithOneSeparator(SourceArg(result))
        /\ EndsWithOneSeparator(args.src) => SourceArg(result) = args.src
        /\ calls = 2 => SourceArg(result) = args.src

SeveralSeparatorsNormalized ==
    /\ calls = 1
    /\ Len(args.src) = 3
    /\ args.src[2] = os_sep
    /\ args.src[3] = os_sep
    /\ SourceArg(result) = << "a", os_sep >>

\* C9: for both values of dry_run the built command has the tool name first,
\* the source argument second to last, the destination last, and holds -ah,
\* --delete, --backup, --backup-dir=<backup_dir>, --exclude=<pattern> and
\* --info=stats2,progress2.
CommandShape ==
    calls >= 1 =>
        LET n == Len(result)
            flags == {result[i] : i \in 2..(n - 2)}
        IN  /\ n = IF args.dry_run THEN 10 ELSE 9
            /\ result[1] = ToolName
            /\ result[n] = args.dst
            /\ RStrip(result[n - 1], {os_sep}) = RStrip(args.src, {os_sep})
            /\ result[n - 1][Len(result[n - 1])] = os_sep
            /\ ArchiveFlag \in flags
            /\ DeleteFlag \in flags
            /\ BackupFlag \in flags
            /\ (BackupDirOpt \o args.backup_dir) \in flags
            /\ (ExcludeOpt \o args.exclude_pattern) \in flags
            /\ InfoFlag \in flags

RealRunCommandBuilt ==
    /\ calls >= 1
    /\ calls = 1
    /\ ~args.dry_run
    /\ Len(result) = 9
    /\ result[9] = args.dst

\* C10: for an output holding "rsync version" followed by a dotted number,
\* parse_rsync_version returns a tuple of exactly three integers: the
\* reported components in order, missing ones filled with 0.
VersionTupleIsTriple ==
    (calls >= 1 /\ args.dotted) =>
        /\ result.ok
        /\ Len(result.parts) = 3
        /\ \A k \in 1..3 :
              result.parts[k] = IF k <= Len(args.comps) THEN args.comps[k] ELSE 0

\* Strict lexicographic order on integer tuples: the first differing
\* position decides; without one, the shorter tuple is the smaller.
LexLess(a, b) ==
    \/ \E k \in 1..Len(a) :
          /\ k <= Len(b)
          /\ \A j \in 1..(k - 1) : a[j] = b[j]
          /\ a[k] < b[k]
    \/ /\ Len(a) < Len(b)
       /\ \A j \in 1..Len(a) : a[j] = b[j]

\* C11: check_rsync has failed as version-too-old (marked message, status 1)
\* exactly when the parsed tuple is strictly below the minimum in
\* lexicographic order; with any other parsed tuple, the minimum itself
\* included, it has passed and the run goes on.
TooOldIffBelowMinimum ==
    /\ failure = "VersionTooOld" =>
          /\ LexLess(version, min_version)
          /\ pc = "exited"
          /\ exitStatus = 1
          /\ console = <<"error">>
    /\ pc = "makedirs" =>
          /\ ~LexLess(version, min_version)
          /\ failure = "none"
          /\ console = <<"version_ok">>
    /\ (pc = "exited" /\ failure \in {"VersionParseError", "CalledProcessError"})
          => version = NoValue

MinimumVersionPasses ==
    /\ pc = "makedirs"
    /\ version = min_version
    /\ failure = "none"

NonBlankLines(text) == SelectSeq(Split(text, "\n"), LAMBDA l : l # <<>>)

\* The two-decimal text of each duration of the model.
DurationText(c) ==
    CASE c = 0 -> <<"0", ".", "0", "0">>
      [] c = 123 -> <<"1", ".", "2", "3">>
      [] c = 1005 -> <<"1", "0", ".", "0", "5">>

\* C12: after save_summary the log file holds, blank lines aside, exactly:
\* the header line naming the timestamp, a separator, the statistics lines
\* as given and in their order, a separator, and the duration line; nothing
\* of what the file held before is left.
SummaryFileContent ==
    calls >= 1 =>
        NonBlankLines(result) =
            <<SummaryHeading \o args.timestamp, SeparatorLine>>
            \o args.stats
            \o <<SeparatorLine,
                 DurationLabel \o DurationText(args.duration) \o SecondsWord>>

OldLogReplaced ==
    /\ calls = 1
    /\ args.before # NoFile
    /\ Len(args.stats) = 2
    /\ args.stats[1] # args.stats[2]

\* The order of the orchestration steps of a run; the console summary is
\* printed by run_rsync just before main prints the final report.
StepOrder(dry) ==
    <<"check_platform", "isdir", "check_rsync">>
    \o (IF dry THEN <<>> ELSE <<"makedirs">>)
    \o <<"build_rsync_command", "print_rsync_header", "execute_rsync">>
    \o (IF dry THEN <<>> ELSE <<"save_summary">>)
    \o <<"print_summary", "report">>

\* The step in which each kind of failure arises.
FailingStep(kind) ==
    CASE kind = "UnsupportedPlatform" -> "check_platform"
      [] kind = "SourceNotFound" -> "isdir"
      [] kind \in {"ToolNotFound", "CalledProcessError", "VersionParseError",
                   "VersionTooOld"} -> "check_rsync"
      [] kind = "MakedirsFailed" -> "makedirs"
      [] kind \in {"Interrupted", "KeyboardInterrupt", "ToolExecutionFailed"}
            -> "execute_rsync"
      [] kind = "PersistenceFailed" -> "save_summary"

\* C13: the steps entered so far are always a beginning of the fixed order
\* (platform check, source check, tool check, backup directory creation
\* unless dry-run, command build, header, execution, log persistence unless
\* dry-run, report); a failure arises in the last step entered, and after it
\* no step is entered any more.
StepsInFixedOrder ==
    /\ [](IsPrefixOf(steps, StepOrder(dry_run)))
    /\ [][failure # "none" => steps' = steps]_vars
    /\ [](failure # "none" => steps[Len(steps)] = FailingStep(failure))

AllStepsTaken ==
    /\ pc = "exited"
    /\ ~dry_run
    /\ steps = StepOrder(FALSE)
    /\ Len(steps) = 10

\* C14: a run that ends without failure ends with status 0 and no other run
\* does; a run that fails by unsupported platform, missing source directory,
\* missing tool or interruption during streaming ends with status 1.
ExitStatusZeroOrOne ==
    /\ pc = "exited" =>
          /\ (failure = "none") <=> (exitStatus = 0)
          /\ failure = "none" => console[Len(console)] = "complete"
    /\ failure \in {"UnsupportedPlatform", "SourceNotFound", "ToolNotFound",
                    "Interrupted"} => exitStatus = 1

InterruptedRunExited ==
    /\ pc = "exited"
    /\ failure = "Interrupted"
    /\ exitStatus = 1
    /\ Len(output) >= 1

\* The failure kinds of the taxonomy, as the model names them.
TaxonomyKinds ==
    {"UnsupportedPlatform", "SourceNotFound", "ToolNotFound",
     "VersionParseError", "VersionTooOld", "ToolExecutionFailed",
     "Interrupted", "PersistenceFailed"}

\* C15: a run that has failed in one of the kinds of the taxonomy has
\* printed, as the last thing on the console, the marked error message of
\* abort, and ends with a status other than 0.
EveryFailurePrintsMarkedMessage ==
    (pc \in {"unwind", "exited"} /\ failure \in TaxonomyKinds) =>
        /\ console[Len(console)] = "error"
        /\ exitStatus # 0

\* The value of the option of cmd that starts with opt.
OptionValue(command, opt) ==
    LET k == CHOOSE i \in 1..Len(command) : StartsWith(command[i], opt)
    IN  SubSeq(command[k], Len(opt) + 1, Len(command[k]))

\* path names an entry directly inside the directory dir.
DirectlyInside(path, dir) ==
    /\ StartsWith(path, dir \o <<os_sep>>)
    /\ Len(path) > Len(dir) + 1
    /\ \A k \in (Len(dir) + 2)..Len(path) : path[k] # os_sep

\* C16 as stated: at the end of a run a log file has been written exactly
\* when the run is not a dry-run and the tool exited with status 0.
LogWrittenIffToolSucceeded ==
    pc = "exited" =>
        ((logFile # NoFile) <=>
            (~dry_run /\ child.state = "exited" /\ child.returncode = 0))

\* C16, amended: a log file exists only in a run that is not a dry-run and
\* whose tool has exited with status 0; it is written in one step, after
\* the child's exit, directly inside the backup directory handed to the
\* tool; and every run that is not a dry-run and ends without failure has
\* written it in full.
LogOnlyAfterToolSucceeded ==
    /\ [](logFile # NoFile =>
            /\ ~dry_run
            /\ child.state = "exited"
            /\ child.returncode = 0
            /\ backupDir = "present"
            /\ DirectlyInside(logFile[1], OptionValue(cmd, BackupDirOpt)))
    /\ []((pc = "exited" /\ failure = "none" /\ ~dry_run) =>
            /\ logFile # NoFile
            /\ Len(NonBlankLines(logFile[2])) = Len(runStats) + 4)
    /\ [][logFile' # logFile =>
            (logFile = NoFile /\ child.state = "exited" /\ pc = "save_summary")]_vars

LogWrittenAfterSuccess ==
    /\ pc = "exited"
    /\ failure = "none"
    /\ ~dry_run
    /\ logFile # NoFile
    /\ Len(runStats) >= 1

\* The tool's matching of an exclude pattern without "/" against a name:
\* "*" stands for any run of characters other than "/", every other
\* character of these patterns for itself.
RECURSIVE GlobMatch(_, _)
GlobMatch(pattern, name) ==
    IF Len(pattern) = 0 THEN Len(name) = 0
    ELSE IF Head(pattern) = "*"
    THEN \/ GlobMatch(Tail(pattern), name)
         \/ /\ Len(name) > 0
            /\ Head(name) # os_sep
            /\ GlobMatch(pattern, Tail(name))
    ELSE /\ Len(name) > 0
         /\ Head(name) = Head(pattern)
         /\ GlobMatch(Tail(pattern), Tail(name))

\* The part of path after its last separator.
LastComponent(path) ==
    LET seps == {k \in 1..Len(path) : path[k] = os_sep}
        from == IF seps = {} THEN 1 ELSE (CHOOSE k \in seps : \A j \in seps : j <= k) + 1
    IN  SubSeq(path, from, Len(path))

\* Timestamps of this and of earlier runs.
BackupTimestamps ==
    RunTimestamps \cup
    { <<"2", "0", "2", "4", "-", "1", "2", "-", "3", "1", "_", "2", "3", "-", "5", "9", "-", "5", "9">> }

\* C17: in the command a run has built and is about to hand to the tool,
\* the backup directory lies directly under the destination, its name is
\* the fixed prefix followed by the timestamp, and the exclusion pattern
\* matches that name and the name of every backup directory of another
\* timestamp (and not the source).
BackupDirsExcluded ==
    pc \in {"header", "spawn"} =>
        LET pattern == OptionValue(cmd, ExcludeOpt)
            dir == OptionValue(cmd, BackupDirOpt)
            name == LastComponent(dir)
        IN  /\ dir = cmd[Len(cmd)] \o <<os_sep>> \o name
            /\ name = BackupPrefix \o Timestamp
            /\ GlobMatch(pattern, name)
            /\ \A ts \in BackupTimestamps : GlobMatch(pattern, BackupPrefix \o ts)
            /\ ~GlobMatch(pattern, LastComponent(cmd[Len(cmd) - 1]))

OwnBackupDirExcluded ==
    /\ pc = "spawn"
    /\ ~dry_run
    /\ backupDir = "present"
    /\ GlobMatch(OptionValue(cmd, ExcludeOpt),
                 LastComponent(OptionValue(cmd, BackupDirOpt)))

\* C18: a run in which writing the log file has failed has ended, at that
\* step, with a status other than 0, and has printed neither the console
\* summary nor the final report.
WriteFailureEndsRun ==
    failure = "PersistenceFailed" =>
        /\ pc = "exited"
        /\ exitStatus # 0
        /\ steps[Len(steps)] = "save_summary"
        /\ "summary" \notin Range(console)
        /\ "complete" \notin Range(console)

WriteFailedAfterToolSucceeded ==
    /\ failure = "PersistenceFailed"
    /\ child.state = "exited"
    /\ child.returncode = 0
    /\ Len(runStats) >= 1

\* The lines rendered as progress among the lines read: trimmed, not blank,
\* without statistics prefix, holding "%" or "to-chk=".
RenderedLinesOf(lines) ==
    LET trimmed == [k \in 1..Len(lines) |-> RStrip(lines[k], Whitespace)]
    IN  SelectSeq(trimmed,
                  LAMBDA l : /\ Len(l) > 0
                             /\ ~HasStatPrefixRaw(l)
                             /\ HasProgressMarkRaw(l))

\* C19: while the output is streamed, once a progress line has been
\* rendered, the console's current line shows the progress line rendered
\* last, followed by nothing but spaces.
CurrentLineShowsLastProgress ==
    (pc \in {"stream", "interrupted"} /\ Len(printed) > 0) =>
        LET rendered == RenderedLinesOf(output)
            last == rendered[Len(rendered)]
        IN  /\ Len(rendered) = Len(printed)
            /\ IsPrefixOf(last, curLine)
            /\ \A k \in (Len(last) + 1)..Len(curLine) : curLine[k] = " "

ProgressShrunkTwice ==
    /\ pc = "stream"
    /\ Len(printed) = 3
    /\ LET rendered == RenderedLinesOf(output)
       IN  /\ Len(rendered) = 3
           /\ Len(rendered[1]) > Len(rendered[2])
           /\ Len(rendered[2]) > Len(rendered[3])
           /\ prev_len = Len(rendered[3])
           /\ Len(curLine) = Len(rendered[1])

\* C20: the wrapper never ends while the sync child is still running
\* without having been sent a termination request, at whatever point
\* between the spawn and the child's exit an interrupt arrives.
ParentNeverLeavesUnaskedChild ==
    (pc = "exited" /\ child.state = "running") => child.termSent

\* How many of the processes spawned so far are of the given kind.
SpawnCount(kind) == Cardinality({k \in DOMAIN spawned : spawned[k] = kind})

\* C21: in one run the version query is spawned at most once and the sync
\* command at most once, the query first; a sync child that has been
\* spawned, whether it still runs, has failed, was interrupted or has
\* succeeded, is the only one there ever is.
ToolSpawnedAtMostOnce ==
    /\ SpawnCount("version") <= 1
    /\ SpawnCount("sync") <= 1
    /\ Len(spawned) = SpawnCount("version") + SpawnCount("sync")
    /\ spawned \in {<<>>, <<"version">>, <<"version", "sync">>}
    /\ (child.state # "none") <=> (SpawnCount("sync") = 1)
    /\ pc = "spawn" => SpawnCount("sync") = 0

FailedToolNotRetried ==
    /\ pc = "exited"
    /\ failure = "ToolExecutionFailed"
    /\ child.state = "exited"
    /\ child.returncode # 0
    /\ spawned = <<"version", "sync">>

\* C22: in a run that is not a dry-run the backup directory is there when
\* the sync child is spawned; once there, no step of the wrapper removes it;
\* and when the tool has exited with a non-zero status or the run has been
\* interrupted, the directory is in place and no log file has been written
\* into it.
BackupDirKeptWithoutLog ==
    /\ []((~dry_run /\ "sync" \in Range(spawned)) => backupDir = "present")
    /\ [][backupDir = "present" => backupDir' = "present"]_vars
    /\ []((~dry_run /\ (\/ (child.state = "exited" /\ child.returncode # 0)
                        \/ failure \in {"Interrupted", "KeyboardInterrupt"})) =>
            /\ backupDir = "present"
            /\ logFile = NoFile)

InterruptedRealRunKeptDir ==
    /\ ~dry_run
    /\ pc = "exited"
    /\ failure = "Interrupted"
    /\ child.state = "exited"
    /\ backupDir = "present"
    /\ logFile = NoFile

=============================================================================
